---- MODULE Spec2Model ----
(***************************************************************************)
(* Project MANTA: the simulation loop (GameEngine), the motion integrator  *)
(* (PhysicsEngine), the keyboard path of InputManager and the part of      *)
(* RenderEngine / AudioEngine the loop drives.                             *)
(*                                                                         *)
(* Numbers.  JavaScript numbers are modelled in fixed point: a real r is   *)
(* the integer r * FP (FP = 1000), products are rounded to the nearest     *)
(* unit; the components of the orientation quaternion carry two digits     *)
(* more (QP).  Times are milliseconds of performance.now(); deltaTime,     *)
(* which the code keeps in seconds, is also a count of 1/FP seconds.       *)
(***************************************************************************)
EXTENDS Integers, Sequences, FiniteSets, TLC

\* the fixed-point unit: three decimal digits
FP == 10 * 10 * 10

\* ------------------------------------------------------------------ bounds
\* the clock moves in steps of ClockStep ms, at most MaxClockSteps times; at
\* most MaxTicks processed ticks, MaxInputs control-input events,
\* MaxSysUpdates subsystem updates and MaxResizes window resizes happen in one
\* behaviour
ClockStep == 500
MaxClockSteps == 2
MaxTicks == 2
MaxInputs == 3
MaxSysUpdates == 2
MaxResizes == 1

\* ------------------------------------------------------- fixed-point reals
RoundDiv(n, d) ==
  IF n >= 0 THEN (2 * n + d) \div (2 * d) ELSE -((2 * (-n) + d) \div (2 * d))

MulFP(a, b) == RoundDiv(a * b, FP)

Vec3(a, b, c) == [x |-> a, y |-> b, z |-> c]
Quat(a, b, c, d) == [x |-> a, y |-> b, z |-> c, w |-> d]

\* -------------------------------------------------- quaternion arithmetic
\* The components of a quaternion carry five decimal digits (a real r is the
\* integer r * QP), two more than the other reals, so that a norm can be told
\* from 1 to within 1e-4.  Products of two such integers do not fit 32 bits:
\* a product is kept as the pair <<hi, lo>> that stands for hi * QP + lo, with
\* 0 <= lo < QP.
QP == 100 * FP

Abs(a) == IF a < 0 THEN -a ELSE a
Sign(a) == IF a < 0 THEN -1 ELSE 1

\* the exact product of two integers of [0, 2 * QP]
WideMul(a, b) ==
  LET p == (a \div FP) * b
      q == (a % FP) * b
      lo == (p % (QP \div FP)) * FP + (q % QP)
  IN <<(p \div (QP \div FP)) + (q \div QP) + (lo \div QP), lo % QP>>

WideAdd(u, v) == <<u[1] + v[1] + ((u[2] + v[2]) \div QP), (u[2] + v[2]) % QP>>
WideLeq(u, v) == u[1] < v[1] \/ (u[1] = v[1] /\ u[2] <= v[2])

\* the integer part of u / b, for a pair u and 0 < b <= 2 * QP
WideDiv(u, b) ==
  LET r1 == (u[1] % b) * FP + (u[2] \div (QP \div FP))
      r2 == (r1 % b) * (QP \div FP) + (u[2] % (QP \div FP))
  IN (u[1] \div b) * QP + (r1 \div b) * (QP \div FP) + (r2 \div b)

\* JavaScript multiplication of two quaternion components, rounded to 1/QP
MulQ(a, b) == RoundDiv((a \div FP) * b + RoundDiv((a % FP) * b, FP), QP \div FP)

\* JavaScript division a / b of a component by a positive length, rounded to 1/QP
DivQ(a, b) == Sign(a) * ((WideDiv(<<2 * Abs(a), 0>>, b) + 1) \div 2)

\* Newton's iteration from above: the integer part of the square root
RECURSIVE SqrtSearch(_, _)
SqrtSearch(n, r) ==
  LET next == (r + WideDiv(n, r)) \div 2
  IN IF next >= r THEN r ELSE SqrtSearch(n, next)

\* Math.sqrt of a sum of squares of components (n a pair, below 4 * QP * QP;
\* the result in 1/QP)
Sqrt(n) == IF n = <<0, 0>> THEN 0 ELSE SqrtSearch(n, 2 * QP)

\* Math.sin / Math.cos of an angle in 1/QP radians (series to the 4th order)
Sin(h) == h - RoundDiv(MulQ(MulQ(h, h), h), 6)
Cos(h) == QP - RoundDiv(MulQ(h, h), 2) + RoundDiv(MulQ(MulQ(h, h), MulQ(h, h)), 24)

\* ------------------------------------------------------------- gl-matrix
\* quat.fromEuler(out, x, y, z), angles in degrees (1/FP degree units); the
\* half angles are in 1/QP radians
HalfToRad == RoundDiv(5 * 3141593, 1800)
FromEuler(dx, dy, dz) ==
  LET hx == RoundDiv(dx * HalfToRad, (FP * FP * FP) \div QP)
      hy == RoundDiv(dy * HalfToRad, (FP * FP * FP) \div QP)
      hz == RoundDiv(dz * HalfToRad, (FP * FP * FP) \div QP)
      sx == Sin(hx)  cx == Cos(hx)
      sy == Sin(hy)  cy == Cos(hy)
      sz == Sin(hz)  cz == Cos(hz)
  IN Quat(MulQ(MulQ(sx, cy), cz) - MulQ(MulQ(cx, sy), sz),
          MulQ(MulQ(cx, sy), cz) + MulQ(MulQ(sx, cy), sz),
          MulQ(MulQ(cx, cy), sz) - MulQ(MulQ(sx, sy), cz),
          MulQ(MulQ(cx, cy), cz) + MulQ(MulQ(sx, sy), sz))

\* quat.multiply(out, a, b)
QuatMultiply(a, b) ==
  Quat(MulQ(a.x, b.w) + MulQ(a.w, b.x) + MulQ(a.y, b.z) - MulQ(a.z, b.y),
       MulQ(a.y, b.w) + MulQ(a.w, b.y) + MulQ(a.z, b.x) - MulQ(a.x, b.z),
       MulQ(a.z, b.w) + MulQ(a.w, b.z) + MulQ(a.x, b.y) - MulQ(a.y, b.x),
       MulQ(a.w, b.w) - MulQ(a.x, b.x) - MulQ(a.y, b.y) - MulQ(a.z, b.z))

\* x*x + y*y + z*z + w*w, exactly
SquaredLength(a) ==
  WideAdd(WideAdd(WideMul(Abs(a.x), Abs(a.x)), WideMul(Abs(a.y), Abs(a.y))),
          WideAdd(WideMul(Abs(a.z), Abs(a.z)), WideMul(Abs(a.w), Abs(a.w))))

\* faulty variant: vec3.normalize in the place of quat.normalize: the vector
\* part is scaled to length one and w is left as it was
QuatNormalizeVectorPart(a) ==
  LET len == WideAdd(WideAdd(WideMul(Abs(a.x), Abs(a.x)), WideMul(Abs(a.y), Abs(a.y))),
                     WideMul(Abs(a.z), Abs(a.z)))
      root == Sqrt(len)
  IN IF root > 0
       THEN Quat(DivQ(a.x, root), DivQ(a.y, root), DivQ(a.z, root), a.w)
       ELSE Quat(0, 0, 0, a.w)

\* quat.normalize(out, a): a zero quaternion stays zero
QuatNormalize(a) ==
  LET len == SquaredLength(a)
      root == Sqrt(len)
  IN IF root > 0
       THEN Quat(DivQ(a.x, root), DivQ(a.y, root), DivQ(a.z, root), DivQ(a.w, root))
       ELSE Quat(0, 0, 0, 0)

\* a quaternion in the unit of the other reals
QuatToFP(q) == Quat(RoundDiv(q.x, QP \div FP), RoundDiv(q.y, QP \div FP),
                    RoundDiv(q.z, QP \div FP), RoundDiv(q.w, QP \div FP))

\* vec3.transformQuat(out, a, q)
TransformQuat(a, q) ==
  LET uvx == MulFP(q.y, a.z) - MulFP(q.z, a.y)
      uvy == MulFP(q.z, a.x) - MulFP(q.x, a.z)
      uvz == MulFP(q.x, a.y) - MulFP(q.y, a.x)
      uuvx == MulFP(q.y, uvz) - MulFP(q.z, uvy)
      uuvy == MulFP(q.z, uvx) - MulFP(q.x, uvz)
      uuvz == MulFP(q.x, uvy) - MulFP(q.y, uvx)
      w2 == 2 * q.w
  IN Vec3(a.x + MulFP(uvx, w2) + 2 * uuvx,
          a.y + MulFP(uvy, w2) + 2 * uuvy,
          a.z + MulFP(uvz, w2) + 2 * uuvz)

\* --------------------------------------------------------- PhysicsEngine
PLASMA_EFFICIENCY == 850
GRAVITY_CONSTANT == 9810
ThrustScale == 50
RadToDeg == 57296
LinearDamping == 980
AngularDamping == 950

\* the values Math.sin(Date.now() * 0.001 * 432.7) * 0.1 + 0.9 can take: the
\* wall clock is not controlled by the program, so the factor is an input
CoilResonances == {800, 1000}

\* JavaScript truthiness of lastControlInput.thrust
Truthy(input, f) == f \in DOMAIN input /\ input[f] # 0

GetForwardVector(transform) ==
  TransformQuat(Vec3(0, 0, -FP), QuatToFP(transform.rotation))

\* faulty variant: the thrust is added as an impulse, not scaled by deltaTime
UpdatePropulsionThrustImpulse(dt, propulsion, transform, vel, last, coilResonance) ==
  LET plasmaEfficiency == MulFP(propulsion["plasmaRate"], PLASMA_EFFICIENCY)
      antiGravityForce == MulFP(propulsion["antiGravity"], coilResonance)
      gravitationalForce == -MulFP(GRAVITY_CONSTANT, FP - antiGravityForce)
      lifted == [vel EXCEPT !.y = @ + MulFP(gravitationalForce, dt)]
      thrustMagnitude == MulFP(last["thrust"], plasmaEfficiency) * ThrustScale
      forward == GetForwardVector(transform)
  IN IF Truthy(last, "thrust")
       THEN Vec3(lifted.x + MulFP(forward.x, thrustMagnitude),
                 lifted.y + MulFP(forward.y, thrustMagnitude),
                 lifted.z + MulFP(forward.z, thrustMagnitude))
       ELSE lifted

\* updatePropulsion: the velocity after the anti-gravity lift and the thrust
UpdatePropulsion(dt, propulsion, transform, vel, last, coilResonance) ==
  LET plasmaEfficiency == MulFP(propulsion["plasmaRate"], PLASMA_EFFICIENCY)
      antiGravityForce == MulFP(propulsion["antiGravity"], coilResonance)
      gravitationalForce == -MulFP(GRAVITY_CONSTANT, FP - antiGravityForce)
      lifted == [vel EXCEPT !.y = @ + MulFP(gravitationalForce, dt)]
      thrustMagnitude == MulFP(last["thrust"], plasmaEfficiency) * ThrustScale
      forward == GetForwardVector(transform)
  IN IF Truthy(last, "thrust")
       THEN Vec3(lifted.x + MulFP(MulFP(forward.x, thrustMagnitude), dt),
                 lifted.y + MulFP(MulFP(forward.y, thrustMagnitude), dt),
                 lifted.z + MulFP(MulFP(forward.z, thrustMagnitude), dt))
       ELSE lifted

IntegratePosition(pos, vel, dt) ==
  Vec3(pos.x + MulFP(vel.x, dt), pos.y + MulFP(vel.y, dt), pos.z + MulFP(vel.z, dt))

IntegrateRotation(rot, ang, dt) ==
  QuatNormalize(QuatMultiply(rot,
    FromEuler(MulFP(MulFP(ang.x, dt), RadToDeg),
              MulFP(MulFP(ang.y, dt), RadToDeg),
              MulFP(MulFP(ang.z, dt), RadToDeg))))

\* faulty variant: the linear velocity is not damped
DampLinearOff(v) == v

\* velocity *= 0.98 and angularVelocity *= 0.95, component by component
DampLinear(v) ==
  Vec3(MulFP(v.x, LinearDamping), MulFP(v.y, LinearDamping), MulFP(v.z, LinearDamping))
DampAngular(v) ==
  Vec3(MulFP(v.x, AngularDamping), MulFP(v.y, AngularDamping), MulFP(v.z, AngularDamping))

\* faulty variant: the heat of the plasma circulation is stored in the cloak
SubsystemPhysicsStoresHeat(dt, states) ==
  [states EXCEPT !["cloaking"]["heat"] =
     @ + MulFP(MulFP(states["propulsion"]["plasmaRate"], states["propulsion"]["coilTemp"]), dt)]

\* what updatePropulsion and updateCloakingPhysics leave in the subsystem state
\* they are handed: heatGeneration, cloakingMassReduction and powerDrain are
\* locals, nothing is stored
SubsystemPhysics(dt, states) == states

\* faulty variant: the power drain of an active cloak is taken from the velocity
UpdateCloakingPhysicsDrainsPower(cloaking, vel) ==
  LET powerDrain == MulFP(FP \div 10, FP - cloaking["integrity"])
  IN IF cloaking["active"]
       THEN Vec3(MulFP(vel.x, FP - powerDrain), MulFP(vel.y, FP - powerDrain),
                 MulFP(vel.z, FP - powerDrain))
       ELSE vel

\* updateCloakingPhysics: the velocity it leaves; cloakingMassReduction and
\* powerDrain are computed into locals and used nowhere
UpdateCloakingPhysics(cloaking, vel) == vel

\* faulty variant: the velocities are damped before the transform is integrated
PhysicsUpdateDampsFirst(dt, states, transform, vel, ang, last, coilResonance) ==
  LET forced == UpdateCloakingPhysics(states["cloaking"],
                    UpdatePropulsion(dt, states["propulsion"], transform, vel, last,
                                     coilResonance))
  IN [velocity |-> DampLinear(forced),
      angularVelocity |-> DampAngular(ang),
      systemStates |-> SubsystemPhysics(dt, states),
      transform |-> [transform EXCEPT
                       !.position = IntegratePosition(@, DampLinear(forced), dt),
                       !.rotation = IntegrateRotation(@, DampAngular(ang), dt)]]

\* PhysicsEngine.update: the new velocity state, and the transform and the
\* subsystem state (both handed over by reference) as it leaves them
PhysicsUpdate(dt, states, transform, vel, ang, last, coilResonance) ==
  LET forced == UpdateCloakingPhysics(states["cloaking"],
                    UpdatePropulsion(dt, states["propulsion"], transform, vel, last,
                                     coilResonance))
  IN [velocity |-> DampLinear(forced),
      angularVelocity |-> DampAngular(ang),
      systemStates |-> SubsystemPhysics(dt, states),
      transform |-> [transform EXCEPT
                       !.position = IntegratePosition(@, forced, dt),
                       !.rotation = IntegrateRotation(@, ang, dt)]]

\* faulty variant: the argument replaces the last-known input
MergeControlOverwrite(last, input) == input

\* { ...this.lastControlInput, ...input }
MergeControl(last, input) ==
  [f \in DOMAIN last \cup DOMAIN input |-> IF f \in DOMAIN input THEN input[f] ELSE last[f]]

\* the rotational impulse of one applyControlInput call
Impulse(input, f) == IF f \in DOMAIN input THEN input[f] ELSE 0

\* faulty variant: a present axis is assigned, not added
AssignImpulses(ang, input) ==
  Vec3(IF "pitch" \in DOMAIN input THEN input["pitch"] ELSE ang.x,
       IF "yaw" \in DOMAIN input THEN input["yaw"] ELSE ang.y,
       IF "roll" \in DOMAIN input THEN input["roll"] ELSE ang.z)

AddImpulses(ang, input) ==
  Vec3(ang.x + Impulse(input, "pitch"), ang.y + Impulse(input, "yaw"),
       ang.z + Impulse(input, "roll"))

\* ---------------------------------------------------------- RenderEngine
\* what the context answers during one RenderEngine.initialize(): whether the
\* vertex shader and the fragment shader compile, whether createProgram()
\* returns an object, whether the program links
GpuOk == [vertex |-> TRUE, fragment |-> TRUE, program |-> TRUE, link |-> TRUE]
GpuAnswers ==
  {GpuOk, [GpuOk EXCEPT !.vertex = FALSE], [GpuOk EXCEPT !.fragment = FALSE],
   [GpuOk EXCEPT !.program = FALSE], [GpuOk EXCEPT !.link = FALSE]}
\* the answers the slices that do not look at GL objects draw from
GpuAnswersBrief == {GpuOk, [GpuOk EXCEPT !.link = FALSE]}

\* compileShader(source, type): the shader it returns and the shader objects
\* it leaves alive; a shader that does not compile is deleted on the spot
CompileShader(shader, compiles) ==
  [shader |-> IF compiles THEN shader ELSE "null",
   live |-> IF compiles THEN {shader} ELSE {}]

\* faulty variant: a program that failed to link is returned all the same
CreateShaderProgramKeepsUnlinked(gpu) ==
  LET vertexShader == CompileShader("vertexShader", gpu.vertex)
      fragmentShader == CompileShader("fragmentShader", gpu.fragment)
      shaders == vertexShader.live \cup fragmentShader.live
  IN IF vertexShader.shader = "null" \/ fragmentShader.shader = "null"
       THEN [program |-> "null", live |-> shaders]
       ELSE IF ~gpu.program THEN [program |-> "null", live |-> shaders]
       ELSE IF ~gpu.link
              THEN [program |-> "unlinkedProgram", live |-> shaders \cup {"unlinkedProgram"}]
       ELSE [program |-> "program", live |-> {"program"}]

\* createShaderProgram(): the program it returns (or null) and the GL objects
\* it created and did not delete. A program object that does not link is
\* called "unlinkedProgram", to keep it apart from the program a later call
\* on the same context links
CreateShaderProgram(gpu) ==
  LET vertexShader == CompileShader("vertexShader", gpu.vertex)
      fragmentShader == CompileShader("fragmentShader", gpu.fragment)
      shaders == vertexShader.live \cup fragmentShader.live
  IN IF vertexShader.shader = "null" \/ fragmentShader.shader = "null"
       THEN [program |-> "null", live |-> shaders]
       ELSE IF ~gpu.program THEN [program |-> "null", live |-> shaders]
       ELSE IF ~gpu.link THEN [program |-> "null", live |-> shaders \cup {"unlinkedProgram"}]
       ELSE [program |-> "program", live |-> {"program"}]

\* createGeometry(): the two buffers
CreateGeometry == [vertexBuffer |-> "vertexBuffer", indexBuffer |-> "indexBuffer"]

\* updateProjectionMatrix(): the entries of the perspective matrix that depend
\* on the canvas, f / aspect and f, with f = tan(PI/2 - fov/2) and
\* aspect = width / height
PerspectiveF == 2414
UpdateProjectionMatrix(width, height) ==
  [m0 |-> RoundDiv(PerspectiveF * height, width), m5 |-> PerspectiveF]

\* new Float32Array(16)
ZeroMatrix == [m0 |-> 0, m5 |-> 0]

\* the factors of gl.blendFunc: the context's defaults, and the pair render() sets
DefaultBlendFunc == <<"ONE", "ZERO">>
AlphaBlendFunc == <<"SRC_ALPHA", "ONE_MINUS_SRC_ALPHA">>

\* ------------------------------------------------------------ the canvas
\* Lengths of the page (clientWidth * devicePixelRatio) are counted in half
\* pixels, so that a pixel ratio of 1.5 is the integer 3; canvas.width and
\* canvas.height are whole pixels (the attribute is an unsigned long: the
\* fraction of an assigned value is dropped).
HalfPixels == 1 + 1
CanvasSize(display) == display \div HalfPixels

\* a canvas element without width / height attributes
DefaultCanvasWidth == 300
DefaultCanvasHeight == 150

\* the layouts and pixel ratios (in halves) a window resize can bring
Layouts == {[clientWidth |-> 800, clientHeight |-> 600],
            [clientWidth |-> 1920, clientHeight |-> 1080],
            [clientWidth |-> 801, clientHeight |-> 600]}
DevicePixelRatios == {2, 3}

\* ------------------------------------------------------------ GameEngine
VARIABLES
  gl, renderEngine, lastTime, deltaTime, isRunning,      \* GameEngine fields
  craftTransform, currentMission, systemStates,
  velocity, angularVelocity, lastControlInput,            \* PhysicsEngine fields
  shaderProgram, vertexBuffer, indexBuffer,               \* RenderEngine fields
  projectionMatrix,
  glObjects, blendEnabled, blendFunc,                     \* the context: live objects, BLEND
  canvasWidth, canvasHeight,                              \* canvas.width, canvas.height
  clientWidth, clientHeight, devicePixelRatio,            \* the page's layout
  pressedKeys, activeTouches, listening,                  \* InputManager
  now, hidden, initPc,                                    \* clock, document.hidden, initialize()
  lastOp, calls,                                          \* last handler run, the calls it made
  resumedAt, cleanedUp, impulseSum, lastViewport,         \* history
  notified, tornDown, timeBase,
  systems,                                                \* App gameState.systems
  nTicks, nInputs, nSysUpdates, nResizes                  \* budgets

engineVars == <<gl, renderEngine, lastTime, deltaTime, isRunning, craftTransform,
                currentMission, systemStates>>
physicsVars == <<velocity, angularVelocity, lastControlInput>>
renderVars == <<shaderProgram, vertexBuffer, indexBuffer, projectionMatrix>>
contextVars == <<glObjects, blendEnabled, blendFunc>>
canvasVars == <<canvasWidth, canvasHeight>>
layoutVars == <<clientWidth, clientHeight, devicePixelRatio>>
inputVars == <<pressedKeys, activeTouches, listening>>
envVars == <<now, hidden, initPc>>
historyVars == <<resumedAt, cleanedUp, impulseSum, lastViewport, notified, tornDown, timeBase>>
budgetVars == <<nTicks, nInputs, nSysUpdates, nResizes>>
appVars == <<systems>>
vars == <<engineVars, physicsVars, renderVars, contextVars, canvasVars, layoutVars,
          inputVars, envVars, lastOp, calls, historyVars, budgetVars, appVars>>

EmptyRecord == [k \in {} |-> 0]
Call(fn, dt, arg) == [fn |-> fn, dt |-> dt, arg |-> arg]
CallsTo(fn) == {i \in DOMAIN calls : calls[i].fn = fn}

SpawnPosition == Vec3(0, 100 * FP, 0)
IdentityRotation == Quat(0, 0, 0, QP)

InitialSystemStates ==
  [propulsion |-> [plasmaRate |-> 500, coilTemp |-> 300, antiGravity |-> 700],
   cloaking |-> [active |-> FALSE, integrity |-> 1000, heat |-> 0],
   sensors |-> [active |-> TRUE, range |-> 1000 * FP, quantum |-> FALSE]]

\* no updateViewport() call yet
NoViewport == [width |-> 0, height |-> 0]

\* the engine is constructed some time after the clock's origin
Init ==
  /\ gl = "null" /\ renderEngine = "null"
  /\ lastTime = 0 /\ deltaTime = 0 /\ isRunning = FALSE
  /\ craftTransform = [position |-> SpawnPosition, rotation |-> IdentityRotation,
                       scale |-> Vec3(FP, FP, FP)]
  /\ currentMission = "null"
  /\ systemStates = InitialSystemStates
  /\ velocity = Vec3(0, 0, 0) /\ angularVelocity = Vec3(0, 0, 0)
  /\ lastControlInput = EmptyRecord
  /\ shaderProgram = "null" /\ vertexBuffer = "null" /\ indexBuffer = "null"
  /\ projectionMatrix = ZeroMatrix
  /\ glObjects = {} /\ blendEnabled = FALSE /\ blendFunc = DefaultBlendFunc
  /\ canvasWidth = DefaultCanvasWidth /\ canvasHeight = DefaultCanvasHeight
  /\ clientWidth = 800 /\ clientHeight = 600 /\ devicePixelRatio = 2
  /\ pressedKeys = {} /\ activeTouches = <<>> /\ listening = FALSE
  /\ now = ClockStep /\ hidden = FALSE /\ initPc = "constructed"
  /\ lastOp = "constructor" /\ calls = <<>>
  /\ resumedAt = -1 /\ cleanedUp = FALSE /\ impulseSum = Vec3(0, 0, 0)
  /\ lastViewport = NoViewport /\ notified = {} /\ tornDown = FALSE /\ timeBase = -1
  /\ systems = InitialSystemStates
  /\ nTicks = 0 /\ nInputs = 0 /\ nSysUpdates = 0 /\ nResizes = 0

\* performance.now() moves on between handlers
AdvanceClock ==
  /\ now + ClockStep <= (MaxClockSteps + 1) * ClockStep
  /\ now' = now + ClockStep
  /\ lastOp' = "clock" /\ calls' = <<>>
  /\ UNCHANGED <<engineVars, physicsVars, renderVars, contextVars, canvasVars,
                 layoutVars, inputVars, hidden, initPc, historyVars, budgetVars, appVars>>

\* RenderEngine.initialize() on a new RenderEngine: it throws exactly when it
\* is left without a shader program
RenderEngineInitialize(gpu) ==
  LET created == CreateShaderProgram(gpu)
  IN /\ shaderProgram' = created.program
     /\ IF created.program = "null"
          THEN /\ glObjects' = glObjects \cup created.live
               /\ vertexBuffer' = "null" /\ indexBuffer' = "null"
               /\ projectionMatrix' = ZeroMatrix
          ELSE /\ vertexBuffer' = CreateGeometry.vertexBuffer
               /\ indexBuffer' = CreateGeometry.indexBuffer
               /\ glObjects' = glObjects \cup created.live
                                 \cup {CreateGeometry.vertexBuffer, CreateGeometry.indexBuffer}
               /\ projectionMatrix' = UpdateProjectionMatrix(canvasWidth, canvasHeight)

\* initialize(), up to its first await: the context, the render engine and
\* the synchronous body of RenderEngine.initialize()
InitializeBody(contextOk, gpu) ==
  /\ lastOp' = "initialize"
  /\ IF contextOk
       THEN /\ gl' = "context" /\ renderEngine' = "engine"
            /\ RenderEngineInitialize(gpu)
            /\ initPc' = IF shaderProgram' = "null" THEN "failed" ELSE "audioInit"
            /\ calls' = <<Call("renderEngine.initialize", 0, gpu)>>
       ELSE /\ initPc' = "failed" /\ calls' = <<>>
            /\ UNCHANGED <<gl, renderEngine, renderVars, glObjects>>
  /\ UNCHANGED <<lastTime, deltaTime, isRunning, craftTransform, currentMission,
                 systemStates, physicsVars, blendEnabled, blendFunc, canvasVars,
                 layoutVars, inputVars, now, hidden, historyVars, budgetVars, appVars>>

InitializeStart(contextOk, gpu) ==
  /\ initPc = "constructed"
  /\ InitializeBody(contextOk, gpu)

\* initialize() called again after it rejected
InitializeAgain(contextOk, gpu) ==
  /\ initPc = "failed"
  /\ InitializeBody(contextOk, gpu)

\* RenderEngine.updateViewport(width, height): the projection is computed from
\* the canvas, which resizeCanvas() has just assigned
UpdateViewport(width, height) ==
  /\ projectionMatrix' = UpdateProjectionMatrix(canvasWidth', canvasHeight')
  /\ lastViewport' = [width |-> width, height |-> height]

\* resizeCanvas(), for a layout of the page
ResizeNeeded(displayWidth, displayHeight) ==
  HalfPixels * canvasWidth # displayWidth \/ HalfPixels * canvasHeight # displayHeight

ResizeCalls(displayWidth, displayHeight) ==
  IF ResizeNeeded(displayWidth, displayHeight)
    THEN (IF gl # "null"
            THEN <<Call("gl.viewport", 0, [width |-> displayWidth, height |-> displayHeight])>>
            ELSE <<>>)
         \o (IF renderEngine # "null"
               THEN <<Call("renderEngine.updateViewport", 0,
                           [width |-> displayWidth, height |-> displayHeight])>>
               ELSE <<>>)
    ELSE <<>>

ResizeCanvas(displayWidth, displayHeight) ==
  IF ResizeNeeded(displayWidth, displayHeight)
    THEN /\ canvasWidth' = CanvasSize(displayWidth)
         /\ canvasHeight' = CanvasSize(displayHeight)
         /\ IF renderEngine # "null"
              THEN UpdateViewport(displayWidth, displayHeight)
              ELSE UNCHANGED <<projectionMatrix, lastViewport>>
    ELSE UNCHANGED <<canvasVars, projectionMatrix, lastViewport>>

\* initialize(), after audioEngine.initialize() settled
InitializeFinish ==
  /\ initPc = "audioInit"
  /\ listening' = TRUE /\ tornDown' = FALSE /\ timeBase' = now
  /\ ResizeCanvas(clientWidth * devicePixelRatio, clientHeight * devicePixelRatio)
  /\ isRunning' = TRUE
  /\ initPc' = "done"
  /\ lastOp' = "initialize"
  /\ calls' = <<Call("inputManager.initialize", 0, EmptyRecord)>>
                \o ResizeCalls(clientWidth * devicePixelRatio, clientHeight * devicePixelRatio)
  /\ UNCHANGED <<gl, renderEngine, lastTime, deltaTime, craftTransform, currentMission,
                 systemStates, physicsVars, shaderProgram, vertexBuffer, indexBuffer,
                 contextVars, layoutVars, pressedKeys, now, hidden, resumedAt, cleanedUp,
                 impulseSum, budgetVars, notified, activeTouches, appVars>>

\* the window's resize listener, registered by initialize(): the page has a
\* new layout and resizeCanvas() runs
WindowResize(layout, ratio) ==
  /\ listening
  /\ nResizes < MaxResizes /\ nResizes' = nResizes + 1
  /\ clientWidth' = layout.clientWidth /\ clientHeight' = layout.clientHeight
  /\ devicePixelRatio' = ratio
  /\ ResizeCanvas(layout.clientWidth * ratio, layout.clientHeight * ratio)
  /\ lastOp' = "resize"
  /\ calls' = ResizeCalls(layout.clientWidth * ratio, layout.clientHeight * ratio)
  /\ UNCHANGED <<engineVars, physicsVars, shaderProgram, vertexBuffer, indexBuffer,
                 contextVars, inputVars, envVars, resumedAt, cleanedUp, impulseSum,
                 nTicks, nInputs, nSysUpdates, notified, tornDown, timeBase, appVars>>

\* faulty variant: resume() leaves the elapsed-time base alone
ResumeKeepsLastTime == lastTime

\* pause() / resume()
ResumeLastTime == now
PauseBody == isRunning' = FALSE /\ UNCHANGED <<lastTime, resumedAt, timeBase>>
ResumeBody ==
  isRunning' = TRUE /\ lastTime' = ResumeLastTime /\ resumedAt' = now /\ timeBase' = now

Pause ==
  /\ PauseBody
  /\ lastOp' = "pause" /\ calls' = <<>>
  /\ UNCHANGED <<gl, renderEngine, deltaTime, craftTransform, currentMission,
                 systemStates, physicsVars, renderVars, contextVars, canvasVars,
                 layoutVars, inputVars, envVars, cleanedUp, impulseSum, lastViewport,
                 budgetVars, notified, tornDown, appVars>>

Resume ==
  /\ ResumeBody
  /\ lastOp' = "resume" /\ calls' = <<>>
  /\ UNCHANGED <<gl, renderEngine, deltaTime, craftTransform, currentMission,
                 systemStates, physicsVars, renderVars, contextVars, canvasVars,
                 layoutVars, inputVars, envVars, cleanedUp, impulseSum, lastViewport,
                 budgetVars, notified, tornDown, appVars>>

\* the document's visibilitychange listener, registered by the constructor
VisibilityChange ==
  /\ hidden' = ~hidden
  /\ IF hidden' THEN PauseBody ELSE ResumeBody
  /\ lastOp' = "visibilitychange" /\ calls' = <<>>
  /\ UNCHANGED <<gl, renderEngine, deltaTime, craftTransform, currentMission,
                 systemStates, physicsVars, renderVars, contextVars, canvasVars,
                 layoutVars, inputVars, now, initPc, cleanedUp, impulseSum, lastViewport,
                 budgetVars, notified, tornDown, appVars>>

Handles(fields) == SelectSeq(fields, LAMBDA handle : handle # "null")
Range(s) == {s[i] : i \in DOMAIN s}

\* faulty variant: the index buffer is forgotten
RenderEngineCleanupForgetsIndexBuffer == Handles(<<shaderProgram, vertexBuffer>>)

\* RenderEngine.cleanup(): the handles it deletes, in order
RenderEngineCleanup == Handles(<<shaderProgram, vertexBuffer, indexBuffer>>)

Cleanup ==
  /\ isRunning' = FALSE
  /\ pressedKeys' = {} /\ activeTouches' = <<>>
  /\ cleanedUp' = TRUE /\ tornDown' = TRUE
  /\ lastOp' = "cleanup"
  /\ glObjects' = IF renderEngine # "null" THEN glObjects \ Range(RenderEngineCleanup)
                                            ELSE glObjects
  /\ calls' = (IF renderEngine # "null"
                 THEN <<Call("renderEngine.cleanup", 0, EmptyRecord)>>
                      \o [i \in DOMAIN RenderEngineCleanup |->
                            Call("gl.delete", 0, RenderEngineCleanup[i])]
                 ELSE <<>>)
               \o <<Call("audioEngine.cleanup", 0, EmptyRecord),
                    Call("inputManager.cleanup", 0, EmptyRecord)>>
  /\ UNCHANGED <<gl, renderEngine, lastTime, deltaTime, craftTransform, currentMission,
                 systemStates, physicsVars, renderVars, blendEnabled, blendFunc,
                 canvasVars, layoutVars, listening, envVars, resumedAt, impulseSum,
                 lastViewport, budgetVars, notified, timeBase, appVars>>

\* faulty variant: the tick does not look at isRunning
TickProcessedIgnoresRunning == gl # "null" /\ renderEngine # "null"

\* render(): one tick of the host's frame driver
TickProcessed == isRunning /\ gl # "null" /\ renderEngine # "null"

DeltaTime(currentTime, last) == RoundDiv((currentTime - last) * FP, 1000)

\* faulty variant: blending is switched on for a cloaked craft and never off
RenderEngineRenderNeverDisables(dt, transform, states) ==
  IF shaderProgram = "null"
    THEN [calls |-> <<>>, blendEnabled |-> blendEnabled, blendFunc |-> blendFunc,
          craftTransform |-> transform, systemStates |-> states]
    ELSE LET enabled == states["cloaking"]["active"] \/ blendEnabled
             func == IF states["cloaking"]["active"] THEN AlphaBlendFunc ELSE blendFunc
         IN [calls |-> <<Call("gl.drawElements", dt,
                              [program |-> shaderProgram, blend |-> enabled,
                               blendFunc |-> func, uProjectionMatrix |-> projectionMatrix,
                               uCloakingActive |-> states["cloaking"]["active"]])>>,
             blendEnabled |-> enabled, blendFunc |-> func,
             craftTransform |-> transform, systemStates |-> states]

\* RenderEngine.render(): nothing without a shader program; else BLEND is set
\* from cloaking.active and one draw call is issued, recorded with the state of
\* the context and the uniforms it is issued under. The transform and the
\* subsystem state are handed over by reference and only read
RenderEngineRender(dt, transform, states) ==
  IF shaderProgram = "null"
    THEN [calls |-> <<>>, blendEnabled |-> blendEnabled, blendFunc |-> blendFunc,
          craftTransform |-> transform, systemStates |-> states]
    ELSE LET enabled == states["cloaking"]["active"]
             func == IF states["cloaking"]["active"] THEN AlphaBlendFunc ELSE blendFunc
         IN [calls |-> <<Call("gl.drawElements", dt,
                              [program |-> shaderProgram, blend |-> enabled,
                               blendFunc |-> func, uProjectionMatrix |-> projectionMatrix,
                               uCloakingActive |-> states["cloaking"]["active"]])>>,
             blendEnabled |-> enabled, blendFunc |-> func,
             craftTransform |-> transform, systemStates |-> states]

\* AudioEngine.update(): reads the subsystem state and the transform it is
\* handed and writes only to its own audio nodes
AudioEngineUpdate(dt, states, transform) ==
  [craftTransform |-> transform, systemStates |-> states]

\* faulty variant: the scene is drawn before the physics step
RenderCallsRenderFirst(dt, before, after) ==
  <<Call("gl.clear", 0, EmptyRecord),
    Call("renderEngine.render", dt, before)>>
  \o RenderEngineRender(dt, before, systemStates).calls
  \o <<Call("physicsEngine.update", dt, after),
       Call("audioEngine.update", dt, after)>>

\* the calls of one processed tick, each with the transform it is handed
RenderCalls(dt, before, after) ==
  <<Call("physicsEngine.update", dt, after),
    Call("audioEngine.update", dt, after),
    Call("gl.clear", 0, EmptyRecord),
    Call("renderEngine.render", dt, after)>>
  \o RenderEngineRender(dt, after, systemStates).calls

Render ==
  /\ lastOp' = "render"
  /\ IF ~TickProcessed
       THEN /\ calls' = <<>>
            /\ UNCHANGED <<engineVars, physicsVars, blendEnabled, blendFunc, historyVars,
                           budgetVars, appVars>>
       ELSE /\ nTicks < MaxTicks /\ nTicks' = nTicks + 1
            /\ \E coilResonance \in CoilResonances :
                 \E r \in {PhysicsUpdate(DeltaTime(now, lastTime), systemStates,
                                         craftTransform, velocity, angularVelocity,
                                         lastControlInput, coilResonance)} :
                 \E heard \in {AudioEngineUpdate(DeltaTime(now, lastTime),
                                                 r.systemStates, r.transform)} :
                 \E drawn \in {RenderEngineRender(DeltaTime(now, lastTime),
                                                  heard.craftTransform,
                                                  heard.systemStates)} :
                    /\ deltaTime' = DeltaTime(now, lastTime)
                    /\ lastTime' = now
                    /\ velocity' = r.velocity
                    /\ angularVelocity' = r.angularVelocity
                    /\ craftTransform' = drawn.craftTransform
                    /\ systemStates' = drawn.systemStates
                    /\ impulseSum' = r.angularVelocity
                    /\ blendEnabled' = drawn.blendEnabled
                    /\ blendFunc' = drawn.blendFunc
                    /\ calls' = RenderCalls(DeltaTime(now, lastTime), craftTransform,
                                            r.transform)
            /\ resumedAt' = -1 /\ timeBase' = now
            /\ UNCHANGED <<gl, renderEngine, isRunning, currentMission, lastControlInput,
                           cleanedUp, lastViewport, nInputs, nSysUpdates, nResizes,
                           notified, tornDown, appVars>>
  /\ UNCHANGED <<renderVars, glObjects, canvasVars, layoutVars, inputVars, envVars>>

\* getMissionById(): the scenario table
Missions ==
  [m \in {"urban-recon-01", "lunar-survey-01"} |->
     IF m = "urban-recon-01"
       THEN [type |-> "atmospheric", environment |-> "urban-night"]
       ELSE [type |-> "deep-space", environment |-> "lunar-surface"]]
GetMissionById(id) == IF id \in DOMAIN Missions THEN id ELSE "null"

MissionIds == DOMAIN Missions \cup {"no-such-mission"}

\* startMission(missionId): what it does to the integrator's velocity state
StartMissionVelocity(vel) == vel

StartMission(missionId) ==
  /\ currentMission' = GetMissionById(missionId)
  /\ lastOp' = "startMission"
  /\ IF currentMission' # "null"
       THEN /\ calls' = (IF renderEngine # "null"
                          THEN <<Call("renderEngine.loadEnvironment", 0,
                                      Missions[missionId].environment)>>
                          ELSE <<>>)
                        \o <<Call("audioEngine.playMissionAudio", 0, Missions[missionId].type)>>
            /\ craftTransform' = [craftTransform EXCEPT !.position = SpawnPosition,
                                                         !.rotation = IdentityRotation]
       ELSE /\ calls' = <<>>
            /\ UNCHANGED craftTransform
  /\ velocity' = StartMissionVelocity(velocity)
  /\ angularVelocity' = StartMissionVelocity(angularVelocity)
  /\ UNCHANGED <<gl, renderEngine, lastTime, deltaTime, isRunning, systemStates,
                 lastControlInput, renderVars, contextVars, canvasVars, layoutVars,
                 inputVars, envVars, historyVars, budgetVars, appVars>>

\* `system in this.systemStates`: own keys and those of Object.prototype
ObjectPrototype == {"toString", "constructor", "hasOwnProperty", "valueOf"}
HasProperty(obj, key) == key \in DOMAIN obj \cup ObjectPrototype

\* { ...record } of an own record; of a prototype member (a function) it is {}
SpreadOf(obj, key) == IF key \in DOMAIN obj THEN obj[key] ELSE EmptyRecord

\* faulty variant: the values replace the record
MergeSystemReplace(record, values) == values

\* { ...this.systemStates[system], ...values }
MergeSystem(record, values) ==
  [k \in DOMAIN record \cup DOMAIN values |-> IF k \in DOMAIN values THEN values[k] ELSE record[k]]

SystemNames == {"propulsion", "cloaking", "sensors", "toString", "warp"}
SystemValues ==
  {[plasmaRate |-> 1000], [active |-> TRUE, integrity |-> 500], [quantum |-> TRUE]}

\* GameEngine.updateSystem(system, values): the engine's side
UpdateSystemBody(system, values) ==
  /\ nSysUpdates < MaxSysUpdates /\ nSysUpdates' = nSysUpdates + 1
  /\ lastOp' = "updateSystem"
  /\ IF HasProperty(systemStates, system)
       THEN /\ systemStates' =
                 [k \in DOMAIN systemStates \cup {system} |->
                    IF k = system THEN MergeSystem(SpreadOf(systemStates, system), values)
                                  ELSE systemStates[k]]
            /\ calls' = <<Call("audioEngine.playSystemSound", 0,
                               [system |-> system, values |-> values])>>
       ELSE /\ calls' = <<>>
            /\ UNCHANGED systemStates
  /\ UNCHANGED <<gl, renderEngine, lastTime, deltaTime, isRunning, craftTransform,
                 currentMission, physicsVars, renderVars, contextVars, canvasVars,
                 layoutVars, inputVars, envVars, historyVars, nTicks, nInputs, nResizes>>

\* a collaborator calling engine.updateSystem directly
UpdateSystem(system, values) == UpdateSystemBody(system, values) /\ UNCHANGED appVars

\* App.handleSystemUpdate(system, values), once engineRef.current is set: the
\* engine's updateSystem and then the mirror's own merge
HandleSystemUpdate(system, values) ==
  /\ initPc = "done"
  /\ UpdateSystemBody(system, values)
  /\ systems' = [k \in DOMAIN systems \cup {system} |->
                   IF k = system THEN MergeSystem(SpreadOf(systems, system), values)
                                 ELSE systems[k]]

\* PhysicsEngine.applyControlInput(input): what it does to the integrator
ApplyControlInputEffect(input) ==
  /\ lastControlInput' = MergeControl(lastControlInput, input)
  /\ angularVelocity' = AddImpulses(angularVelocity, input)
  /\ impulseSum' = Vec3(impulseSum.x + Impulse(input, "pitch"),
                        impulseSum.y + Impulse(input, "yaw"),
                        impulseSum.z + Impulse(input, "roll"))
  /\ UNCHANGED velocity

\* PhysicsEngine.applyControlInput(input), called on its own
ApplyControlInputBody(input) ==
  /\ ApplyControlInputEffect(input)
  /\ calls' = <<Call("physicsEngine.applyControlInput", 0, input)>>

ControlInputs ==
  {[pitch |-> 100], [yaw |-> 200], [roll |-> -100, thrust |-> 1000], [thrust |-> 0]}

\* a collaborator calling engine.physicsEngine.applyControlInput directly
ApplyControlInput(input) ==
  /\ nInputs < MaxInputs /\ nInputs' = nInputs + 1
  /\ ApplyControlInputBody(input)
  /\ lastOp' = "applyControlInput"
  /\ UNCHANGED <<engineVars, renderVars, contextVars, canvasVars, layoutVars, inputVars,
                 envVars, resumedAt, cleanedUp, lastViewport, nTicks, nSysUpdates,
                 nResizes, notified, tornDown, timeBase, appVars>>

\* InputManager.triggerKeyEvent: keyMap[key] || key.toLowerCase()
KeyCodes == {"KeyW", "KeyA", "KeyS", "KeyD", "Space"}
MappedKey(code) ==
  CASE code = "KeyW" -> "w" [] code = "KeyA" -> "a" [] code = "KeyS" -> "s"
    [] code = "KeyD" -> "d" [] code = "Space" -> " " [] OTHER -> code

\* GameEngine.handleKeyInput: the applyControlInput calls of one key event
KeyStrength == 20
KeyThrust == 800
\* faulty variant: releasing a key cuts the thrust
HandleKeyInputReleaseCutsThrust(key, pressed) ==
  LET inputStrength == IF pressed THEN 1 ELSE 0
  IN CASE key = "w" -> <<[pitch |-> -KeyStrength * inputStrength, yaw |-> 0, roll |-> 0,
                          thrust |-> KeyThrust * inputStrength]>>
       [] key = "s" -> <<[pitch |-> KeyStrength * inputStrength, yaw |-> 0, roll |-> 0,
                          thrust |-> KeyThrust * inputStrength]>>
       [] key = "a" -> <<[pitch |-> 0, yaw |-> -KeyStrength * inputStrength, roll |-> 0,
                          thrust |-> KeyThrust * inputStrength]>>
       [] key = "d" -> <<[pitch |-> 0, yaw |-> KeyStrength * inputStrength, roll |-> 0,
                          thrust |-> KeyThrust * inputStrength]>>
       [] OTHER -> <<>>

HandleKeyInput(key, pressed) ==
  LET inputStrength == IF pressed THEN 1 ELSE 0
  IN CASE key = "w" -> <<[pitch |-> -KeyStrength * inputStrength, yaw |-> 0, roll |-> 0,
                          thrust |-> KeyThrust]>>
       [] key = "s" -> <<[pitch |-> KeyStrength * inputStrength, yaw |-> 0, roll |-> 0,
                          thrust |-> KeyThrust]>>
       [] key = "a" -> <<[pitch |-> 0, yaw |-> -KeyStrength * inputStrength, roll |-> 0,
                          thrust |-> KeyThrust]>>
       [] key = "d" -> <<[pitch |-> 0, yaw |-> KeyStrength * inputStrength, roll |-> 0,
                          thrust |-> KeyThrust]>>
       [] OTHER -> <<>>

\* InputManager.triggerKeyEvent and the engine's onKey handler: the notification
\* and the applyControlInput call it leads to
OnKey(code, pressed) ==
  \E inputs \in {HandleKeyInput(MappedKey(code), pressed)} :
    /\ notified' = IF pressed THEN notified \cup {code} ELSE notified \ {code}
    /\ IF inputs = <<>>
         THEN /\ calls' = <<Call("onKey", 0, [key |-> MappedKey(code), pressed |-> pressed])>>
              /\ UNCHANGED <<physicsVars, impulseSum>>
         ELSE /\ ApplyControlInputEffect(inputs[1])
              /\ calls' = <<Call("onKey", 0, [key |-> MappedKey(code), pressed |-> pressed]),
                            Call("physicsEngine.applyControlInput", 0, inputs[1])>>

\* faulty variant: every keydown is reported, auto-repeats included
KeyDownNotifiesAlways(code) == TRUE

\* handleKeyDown reports a key that is not already held
KeyDownNotifies(code) == code \notin pressedKeys

\* InputManager.handleKeyDown, a window listener once initialize() registered it
KeyDown(code) ==
  /\ listening
  /\ nInputs < MaxInputs /\ nInputs' = nInputs + 1
  /\ lastOp' = "keydown"
  /\ IF KeyDownNotifies(code)
       THEN pressedKeys' = pressedKeys \cup {code} /\ OnKey(code, TRUE)
       ELSE calls' = <<>> /\ UNCHANGED <<pressedKeys, physicsVars, impulseSum, notified>>
  /\ UNCHANGED <<engineVars, renderVars, contextVars, canvasVars, layoutVars, listening,
                 activeTouches, envVars, resumedAt, cleanedUp, lastViewport, nTicks,
                 nSysUpdates, nResizes, tornDown, timeBase, appVars>>

\* InputManager.handleKeyUp
KeyUp(code) ==
  /\ listening
  /\ nInputs < MaxInputs /\ nInputs' = nInputs + 1
  /\ lastOp' = "keyup"
  /\ IF code \in pressedKeys
       THEN pressedKeys' = pressedKeys \ {code} /\ OnKey(code, FALSE)
       ELSE calls' = <<>> /\ UNCHANGED <<pressedKeys, physicsVars, impulseSum, notified>>
  /\ UNCHANGED <<engineVars, renderVars, contextVars, canvasVars, layoutVars, listening,
                 activeTouches, envVars, resumedAt, cleanedUp, lastViewport, nTicks,
                 nSysUpdates, nResizes, tornDown, timeBase, appVars>>

\* the touches of a Map<number, Touch>, in insertion order
MapSet(touches, touch) ==
  IF \E i \in DOMAIN touches : touches[i].identifier = touch.identifier
    THEN [i \in DOMAIN touches |->
            IF touches[i].identifier = touch.identifier THEN touch ELSE touches[i]]
    ELSE Append(touches, touch)
MapDelete(touches, identifier) ==
  SelectSeq(touches, LAMBDA touch : touch.identifier # identifier)
MapHas(touches, identifier) == \E i \in DOMAIN touches : touches[i].identifier = identifier

Touch(identifier, point) ==
  [identifier |-> identifier, clientX |-> point.clientX, clientY |-> point.clientY]

\* GameEngine.handleTouchInput: the applyControlInput calls of one touch event
TouchStrength == 20
TouchThrust == 700
Normalized(client, extent) == RoundDiv(2 * FP * client, extent) - FP
HandleTouchInput(touches, width, height) ==
  IF Len(touches) = 1
    THEN <<[pitch |-> MulFP(-Normalized(touches[1].clientY, height), TouchStrength),
            yaw |-> MulFP(Normalized(touches[1].clientX, width), TouchStrength),
            roll |-> 0, thrust |-> TouchThrust]>>
    ELSE <<>>

\* InputManager.triggerTouchEvent and the engine's onTouch handler
OnTouch(type, touches) ==
  \E inputs \in {HandleTouchInput(touches, clientWidth, clientHeight)} :
    IF inputs = <<>>
      THEN /\ calls' = <<Call("onTouch", 0, [type |-> type, touches |-> touches])>>
           /\ UNCHANGED <<physicsVars, impulseSum>>
      ELSE /\ ApplyControlInputEffect(inputs[1])
           /\ calls' = <<Call("onTouch", 0, [type |-> type, touches |-> touches]),
                         Call("physicsEngine.applyControlInput", 0, inputs[1])>>

\* what every pointer handler leaves alone
PointerFrame ==
  /\ nInputs < MaxInputs /\ nInputs' = nInputs + 1
  /\ UNCHANGED <<engineVars, renderVars, contextVars, canvasVars, layoutVars,
                 pressedKeys, listening, envVars, resumedAt, cleanedUp, lastViewport,
                 notified, nTicks, nSysUpdates, nResizes, tornDown, timeBase, appVars>>

\* the canvas's touch listeners; one changed touch per event
TouchIds == {1, 2}
TouchPoints == {[clientX |-> 400, clientY |-> 300], [clientX |-> 800, clientY |-> 0]}

TouchStart(identifier, point) ==
  /\ listening /\ PointerFrame
  /\ lastOp' = "touchstart"
  /\ activeTouches' = MapSet(activeTouches, Touch(identifier, point))
  /\ OnTouch("start", activeTouches')

TouchMove(identifier, point) ==
  /\ listening /\ PointerFrame
  /\ lastOp' = "touchmove"
  /\ activeTouches' = MapSet(activeTouches, Touch(identifier, point))
  /\ OnTouch("move", activeTouches')

TouchEnd(identifier) ==
  /\ listening /\ PointerFrame
  /\ lastOp' = "touchend"
  /\ activeTouches' = MapDelete(activeTouches, identifier)
  /\ OnTouch("end", activeTouches')

TouchCancel ==
  /\ listening /\ PointerFrame
  /\ lastOp' = "touchcancel"
  /\ activeTouches' = <<>>
  /\ OnTouch("cancel", <<>>)

\* the canvas's mouse listeners: the mouse is touch 0
MouseDown(point) ==
  /\ listening /\ PointerFrame
  /\ lastOp' = "mousedown"
  /\ activeTouches' = MapSet(activeTouches, Touch(0, point))
  /\ OnTouch("start", <<Touch(0, point)>>)

MouseMove(point) ==
  /\ listening /\ PointerFrame
  /\ lastOp' = "mousemove"
  /\ IF MapHas(activeTouches, 0)
       THEN /\ activeTouches' = MapSet(activeTouches, Touch(0, point))
            /\ OnTouch("move", <<Touch(0, point)>>)
       ELSE calls' = <<>> /\ UNCHANGED <<activeTouches, physicsVars, impulseSum>>

MouseUp ==
  /\ listening /\ PointerFrame
  /\ lastOp' = "mouseup"
  /\ IF MapHas(activeTouches, 0)
       THEN /\ activeTouches' = MapDelete(activeTouches, 0)
            /\ OnTouch("end", <<>>)
       ELSE calls' = <<>> /\ UNCHANGED <<activeTouches, physicsVars, impulseSum>>

\* ---------------------------------------------------------------- claims
CallsIn(cs, fn) == {i \in DOMAIN cs : cs[i].fn = fn}
KnownSystems == {"propulsion", "cloaking", "sensors"}
Zero3 == Vec3(0, 0, 0)
\* a field of the last-known control input; a field not yet set counts as zero
LastKnown(last, f) == IF f \in DOMAIN last THEN last[f] ELSE 0

\* C1: after startMission with a known scenario id the craft is at the spawn
\* position with the identity orientation, and the integrator's linear and
\* angular velocity are both zero.
C1_StartMissionResetsCraft ==
  (lastOp = "startMission" /\ currentMission # "null") =>
     /\ craftTransform.position = SpawnPosition
     /\ craftTransform.rotation = IdentityRotation
     /\ velocity = Zero3
     /\ angularVelocity = Zero3

\* C2: a processed tick calls the integrator's update exactly once and the
\* pipeline's render exactly once, update first, both with the tick's dt, and
\* render is handed the transform that update produced.
C2_UpdateThenRender ==
  [][(lastOp' = "render" /\ TickProcessed) =>
       LET u == CallsIn(calls', "physicsEngine.update")
           r == CallsIn(calls', "renderEngine.render")
       IN /\ Cardinality(u) = 1 /\ Cardinality(r) = 1
          /\ \A i \in u, j \in r :
               /\ i < j
               /\ calls'[i].dt = deltaTime' /\ calls'[j].dt = deltaTime'
               /\ calls'[i].arg = craftTransform'
               /\ calls'[j].arg = craftTransform']_vars

\* a processed tick whose render was handed a transform the update had moved
C2_Witness ==
  /\ lastOp = "render" /\ initPc = "done"
  /\ \E j \in CallsTo("renderEngine.render") :
       calls[j].dt > 0 /\ calls[j].arg.position # SpawnPosition

\* C3: a tick while the loop is not running changes neither the transform, the
\* velocity state, the subsystem state nor the elapsed-time base, and calls
\* nothing.
C3_TickNotRunningIsNoOp ==
  [][(lastOp' = "render" /\ ~isRunning) =>
       /\ UNCHANGED <<craftTransform, velocity, angularVelocity, systemStates, lastTime,
                      deltaTime>>
       /\ calls' = <<>>]_vars

\* a tick on a paused, fully initialized engine, with clock time to account for
C3_Witness ==
  /\ lastOp = "render" /\ ~isRunning /\ calls = <<>>
  /\ initPc = "done" /\ ~cleanedUp /\ now > lastTime /\ nTicks > 0

\* C4: the first processed tick after a resume() is given the clock time that
\* passed since that resume(), whatever time passed before it.
C4_ResumeResetsTimeBase ==
  [][(lastOp' = "render" /\ TickProcessed /\ resumedAt >= 0) =>
       /\ deltaTime' * 1000 = (now - resumedAt) * FP
       /\ \A i \in CallsIn(calls', "physicsEngine.update") :
            calls'[i].dt * 1000 = (now - resumedAt) * FP]_vars

\* the first processed tick, one clock step after construction, is given that
\* one step and not the time since the clock's origin: a resume() at
\* construction time had reset the time base
C4_Witness ==
  /\ lastOp = "render" /\ calls # <<>> /\ nTicks = 1 /\ initPc = "done"
  /\ now = 2 * ClockStep /\ deltaTime * 1000 = ClockStep * FP

\* C5: cleanup() is terminal: whatever resume(), visibility change or tick
\* follows it, no handler calls the integrator's update or issues a draw call
\* once cleanup() has run.
C5_CleanupIsTerminal ==
  cleanedUp =>
    /\ CallsTo("physicsEngine.update") = {}
    /\ CallsTo("gl.drawElements") = {}

\* C6: applyControlInput merges: a field of the argument takes the new value, a
\* field absent from it keeps its last-known value, no field is dropped.
C6_ControlInputMerges ==
  [][\A i \in CallsIn(calls', "physicsEngine.applyControlInput") :
       LET input == calls'[i].arg
       IN /\ DOMAIN lastControlInput' = DOMAIN lastControlInput \cup DOMAIN input
          /\ \A f \in DOMAIN input : lastControlInput'[f] = input[f]
          /\ \A f \in DOMAIN lastControlInput \ DOMAIN input :
               lastControlInput'[f] = lastControlInput[f]]_vars

\* applyControlInput({pitch: 0.1}) then applyControlInput({yaw: 0.2})
C6_Witness ==
  /\ lastOp = "applyControlInput"
  /\ calls[1].arg = [yaw |-> 200]
  /\ DOMAIN lastControlInput = {"pitch", "yaw"}
  /\ lastControlInput["pitch"] = 100 /\ lastControlInput["yaw"] = 200

\* C7: applyControlInput adds each present pitch / yaw / roll value to its
\* angular-velocity axis and leaves the other axes and the linear velocity
\* alone; so the angular velocity is what the last update left (zero at
\* construction) plus the sum of the values supplied since.
C7_ImpulsesAccumulate ==
  /\ [](angularVelocity = impulseSum)
  /\ [][\A i \in CallsIn(calls', "physicsEngine.applyControlInput") :
          LET input == calls'[i].arg
          IN /\ angularVelocity'.x = angularVelocity.x + Impulse(input, "pitch")
             /\ angularVelocity'.y = angularVelocity.y + Impulse(input, "yaw")
             /\ angularVelocity'.z = angularVelocity.z + Impulse(input, "roll")
             /\ velocity' = velocity]_vars

\* two calls with pitch 0.1 and no update: the axis holds 0.2
C7_Witness ==
  /\ lastOp = "applyControlInput" /\ nTicks = 0 /\ nInputs = 2
  /\ calls[1].arg = [pitch |-> 100]
  /\ angularVelocity = Vec3(200, 0, 0)

\* C8: updateSystem with a known name sets the supplied fields of that record
\* and leaves its other fields, the other records, the transform and the
\* velocity state unchanged.
C8_UpdateSystemMergesOneRecord ==
  [][\A i \in CallsIn(calls', "audioEngine.playSystemSound") :
       LET system == calls'[i].arg.system
           values == calls'[i].arg.values
       IN system \in KnownSystems =>
            /\ DOMAIN systemStates' = DOMAIN systemStates
            /\ DOMAIN systemStates'[system] = DOMAIN systemStates[system] \cup DOMAIN values
            /\ \A k \in DOMAIN values : systemStates'[system][k] = values[k]
            /\ \A k \in DOMAIN systemStates[system] \ DOMAIN values :
                 systemStates'[system][k] = systemStates[system][k]
            /\ \A other \in DOMAIN systemStates \ {system} :
                 systemStates'[other] = systemStates[other]
            /\ UNCHANGED <<craftTransform, velocity, angularVelocity>>]_vars

\* cloaking updated with {active, integrity} on a craft that is moving
C8_Witness ==
  /\ lastOp = "updateSystem"
  /\ systemStates["cloaking"] = [active |-> TRUE, integrity |-> 500, heat |-> 0]
  /\ systemStates["propulsion"] = InitialSystemStates["propulsion"]
  /\ velocity # Zero3 /\ craftTransform.position # SpawnPosition

\* C9: updateSystem with any name other than propulsion, cloaking or sensors,
\* names of Object.prototype members included, changes no subsystem record and
\* notifies nobody.
C9_UnknownSystemIsNoOp ==
  [][\A system \in SystemNames \ KnownSystems, values \in SystemValues :
       UpdateSystem(system, values) => (UNCHANGED systemStates /\ calls' = <<>>)]_vars

\* C10: startMission with an id that is not in the scenario table changes
\* nothing and calls nothing.
C10_UnknownMissionIsNoOp ==
  [][\A missionId \in MissionIds \ DOMAIN Missions :
       StartMission(missionId) =>
         /\ UNCHANGED <<currentMission, craftTransform, velocity, angularVelocity,
                        systemStates, isRunning>>
         /\ calls' = <<>>]_vars

C12_BlendFollowsCloak ==
  [][\A i \in CallsIn(calls', "gl.drawElements") :
       LET active == systemStates["cloaking"]["active"]
       IN /\ calls'[i].arg.blend = active
          /\ blendEnabled' = active
          /\ active => /\ calls'[i].arg.blendFunc = AlphaBlendFunc
                       /\ blendFunc' = AlphaBlendFunc]_vars

\* a draw call without blending on a context whose blend factors an earlier,
\* cloaked render had set
C12_Witness ==
  /\ lastOp = "render" /\ CallsTo("gl.drawElements") # {}
  /\ ~blendEnabled /\ blendFunc = AlphaBlendFunc
  /\ ~systemStates["cloaking"]["active"]

\* C13: the projection matrix every draw call is issued with is the one for
\* the aspect ratio width / height of the most recent updateViewport(width,
\* height) call before it.
C13_ProjectionOfLastResize ==
  \A i \in CallsTo("gl.drawElements") :
    lastViewport # NoViewport =>
      calls[i].arg.uProjectionMatrix =
        UpdateProjectionMatrix(lastViewport.width, lastViewport.height)

\* C14: whatever updates and control inputs have happened, the norm of the
\* craft's orientation quaternion is within 1e-4 of 1: its square lies between
\* (1 - 1e-4)^2 and (1 + 1e-4)^2.
NormTolerance == QP \div (10 * FP)
C14_OrientationStaysUnit ==
  LET n == SquaredLength(craftTransform.rotation)
  IN /\ WideLeq(WideMul(QP - NormTolerance, QP - NormTolerance), n)
     /\ WideLeq(n, WideMul(QP + NormTolerance, QP + NormTolerance))

\* two updates have turned the craft about all three axes
C14_Witness ==
  /\ lastOp = "render" /\ nTicks >= 2
  /\ craftTransform.rotation.x # 0 /\ craftTransform.rotation.y # 0
  /\ craftTransform.rotation.z # 0 /\ craftTransform.rotation.w < QP

\* C17: cleanup() after a successful initialize() deletes the shader program,
\* the vertex buffer and the index buffer, one delete call each, and none of
\* the three is live afterwards; until then all three are live.
Initialized == initPc \in {"audioInit", "done"}
PipelineHandles == {shaderProgram, vertexBuffer, indexBuffer}
C17_CleanupDeletesEveryHandle ==
  /\ []((Initialized /\ ~cleanedUp) =>
          ("null" \notin PipelineHandles /\ PipelineHandles \subseteq glObjects))
  /\ [][(lastOp' = "cleanup" /\ Initialized) =>
          /\ PipelineHandles \cap glObjects' = {}
          /\ {calls'[i].arg : i \in CallsIn(calls', "gl.delete")} = PipelineHandles
          /\ Cardinality(CallsIn(calls', "gl.delete")) = 3]_vars

\* cleanup() has run on a pipeline whose initialize() succeeded and whose
\* three handles were live
C17_Witness ==
  /\ lastOp = "cleanup" /\ Initialized /\ "null" \notin PipelineHandles
  /\ Cardinality(CallsTo("gl.delete")) = 3
  /\ PipelineHandles \cap glObjects = {}

\* C18: every GL object that is live when RenderEngine.initialize() exits and
\* was not live when it was entered is one the pipeline holds (its program or
\* one of its buffers): no shader and no program object the call created and
\* did not hand back is left undeleted, on the error exits included.
C18_InitializeLeaksNothing ==
  [][\A i \in CallsIn(calls', "renderEngine.initialize") :
       glObjects' \subseteq glObjects \cup {shaderProgram', vertexBuffer', indexBuffer'}]_vars

\* C15: with no control input ever applied, every update leaves each component
\* of the linear velocity at most 0.98 * (|v| + g * dt) in magnitude, v the
\* component before the call (x and z stay zero), and therefore, for dt up to
\* MaxDt, the velocity never leaves the band 49 * g * MaxDt, which the step
\* bound maps into itself.
MaxDt == DeltaTime((MaxClockSteps + 1) * ClockStep, 0)
VelocityBound == 49 * MulFP(GRAVITY_CONSTANT, MaxDt)
C15_VelocityStaysBounded ==
  /\ [](/\ velocity.x = 0 /\ velocity.z = 0
        /\ Abs(velocity.y) <= VelocityBound)
  /\ [][\A i \in CallsIn(calls', "physicsEngine.update") :
          /\ calls'[i].dt <= MaxDt
          /\ Abs(velocity'.y) <=
               MulFP(Abs(velocity.y) + MulFP(GRAVITY_CONSTANT, calls'[i].dt), LinearDamping)]_vars

\* two updates under full gravity (the anti-gravity drive set to zero), the
\* craft falling and no control input applied
C15_Witness ==
  /\ lastOp = "render" /\ nTicks >= 2 /\ CallsTo("physicsEngine.update") # {}
  /\ systemStates["propulsion"]["antiGravity"] = 0
  /\ lastControlInput = EmptyRecord
  /\ velocity.y < -MulFP(GRAVITY_CONSTANT, ClockStep)

\* C16: the subsystem state changes in updateSystem steps only: a tick, with
\* its integrator update, audio update and render, leaves every field of it as
\* it was; and the craft transform after a tick is the one render was handed,
\* so render has not changed it.
C16_SubsystemStateOnlyByUpdateSystem ==
  [][/\ systemStates' # systemStates => lastOp' = "updateSystem"
     /\ lastOp' = "render" => systemStates' = systemStates
     /\ \A i \in CallsIn(calls', "renderEngine.render") :
          craftTransform' = calls'[i].arg]_vars

\* a processed tick with a draw call, on a subsystem state an updateSystem has
\* changed, the integrator having moved the craft
C16_Witness ==
  /\ lastOp = "render" /\ CallsTo("physicsEngine.update") # {}
  /\ CallsTo("audioEngine.update") # {} /\ CallsTo("gl.drawElements") # {}
  /\ systemStates # InitialSystemStates
  /\ craftTransform.position # SpawnPosition

\* C19: every physicsEngine.update call of a tick is handed dt > 0.
C19_UpdateGetsPositiveDt ==
  \A i \in CallsTo("physicsEngine.update") : calls[i].dt > 0

\* C20: a key-up of w or s that reaches handleKeyInput leaves the last-known
\* yaw and roll as they were, and a key-up of a or d leaves the last-known
\* pitch and roll as they were (a field not yet set counts as zero).
C20_KeyUpClearsOwnAxesOnly ==
  [][(lastOp' = "keyup" /\ pressedKeys' # pressedKeys) =>
       LET released == pressedKeys \ pressedKeys'
           Kept(f) == LastKnown(lastControlInput', f) = LastKnown(lastControlInput, f)
       IN /\ released \cap {"KeyW", "KeyS"} # {} => (Kept("yaw") /\ Kept("roll"))
          /\ released \cap {"KeyA", "KeyD"} # {} => (Kept("pitch") /\ Kept("roll"))]_vars

\* C21: on every update the x and z components of the velocity (gravity acts
\* on y only) gain forward * (thrust * plasmaRate * 0.85 * 50) * dt before the
\* damping when the last-known thrust is nonzero, forward being (0, 0, -1)
\* turned by the orientation the call finds, and gain nothing when the thrust
\* is zero or absent; the y component gains the same kind of term on top of
\* the lift; and an update leaves the last-known input as it was, so the thrust
\* acts on every later update.
ThrustGain(last, propulsion, rotation, dt) ==
  LET thrust == LastKnown(last, "thrust")
      magnitude == MulFP(thrust, MulFP(propulsion["plasmaRate"], PLASMA_EFFICIENCY))
                     * ThrustScale
      forward == TransformQuat(Vec3(0, 0, -FP), QuatToFP(rotation))
  IN IF thrust = 0
       THEN Zero3
       ELSE Vec3(MulFP(MulFP(forward.x, magnitude), dt),
                 MulFP(MulFP(forward.y, magnitude), dt),
                 MulFP(MulFP(forward.z, magnitude), dt))
C21_ThrustIsALevel ==
  [][\A i \in CallsIn(calls', "physicsEngine.update") :
       LET gain == ThrustGain(lastControlInput, systemStates["propulsion"],
                              craftTransform.rotation, calls'[i].dt)
       IN /\ velocity'.x = MulFP(velocity.x + gain.x, LinearDamping)
          /\ velocity'.z = MulFP(velocity.z + gain.z, LinearDamping)
          /\ \E coilResonance \in CoilResonances :
               velocity'.y =
                 MulFP(velocity.y + gain.y
                         - MulFP(MulFP(GRAVITY_CONSTANT,
                                       FP - MulFP(systemStates["propulsion"]["antiGravity"],
                                                  coilResonance)),
                                 calls'[i].dt),
                       LinearDamping)
          /\ lastControlInput' = lastControlInput]_vars

\* the second update after the one control input that carried thrust: the
\* craft has turned, and the thrust has pushed it sideways
C21_Witness ==
  /\ lastOp = "render" /\ nTicks >= 2 /\ deltaTime > 0
  /\ CallsTo("physicsEngine.update") # {}
  /\ LastKnown(lastControlInput, "thrust") # 0
  /\ craftTransform.rotation # IdentityRotation
  /\ velocity.x # 0 /\ velocity.z # 0

\* C22: on every update, with u the velocity after the lift and the thrust of
\* that call, the position moves by u * dt and the stored velocity is
\* 0.98 * u; the orientation is integrated with the angular velocity the call
\* found, and the stored angular velocity is 0.95 times that one; the two
\* factors are the same for every dt.
VelocityBeforeDamping(dt, coilResonance) ==
  LET propulsion == systemStates["propulsion"]
      gain == ThrustGain(lastControlInput, propulsion, craftTransform.rotation, dt)
      lift == -MulFP(MulFP(GRAVITY_CONSTANT,
                           FP - MulFP(propulsion["antiGravity"], coilResonance)), dt)
  IN Vec3(velocity.x + gain.x, velocity.y + lift + gain.y, velocity.z + gain.z)
C22_DampingOnceAfterIntegration ==
  [][\A i \in CallsIn(calls', "physicsEngine.update") :
       \E coilResonance \in CoilResonances :
         LET dt == calls'[i].dt
             u == VelocityBeforeDamping(dt, coilResonance)
             position == craftTransform.position
         IN /\ craftTransform'.position =
                 Vec3(position.x + MulFP(u.x, dt), position.y + MulFP(u.y, dt),
                      position.z + MulFP(u.z, dt))
            /\ velocity' = Vec3(MulFP(u.x, LinearDamping), MulFP(u.y, LinearDamping),
                                MulFP(u.z, LinearDamping))
            /\ craftTransform'.rotation =
                 IntegrateRotation(craftTransform.rotation, angularVelocity, dt)
            /\ angularVelocity' =
                 Vec3(MulFP(angularVelocity.x, AngularDamping),
                      MulFP(angularVelocity.y, AngularDamping),
                      MulFP(angularVelocity.z, AngularDamping))]_vars

\* an update with dt > 0 of a craft that was moving and turning
C22_Witness ==
  /\ lastOp = "render" /\ nTicks >= 2 /\ deltaTime > 0
  /\ CallsTo("physicsEngine.update") # {}
  /\ velocity.y # 0 /\ velocity.z # 0
  /\ angularVelocity.x # 0
  /\ craftTransform.position # SpawnPosition
  /\ craftTransform.rotation # IdentityRotation

\* C23: the velocity, the angular velocity and the transform an update leaves
\* are the ones it would have left with any other cloaking and sensors records
\* in the subsystem state, everything else (propulsion, dt, the clock reading
\* behind the coil resonance, the integrator state) being equal. Control
\* inputs do not read the subsystem state, so two runs that differ only in
\* these records agree after every step.
CloakingRecords ==
  {InitialSystemStates["cloaking"],
   [active |-> TRUE, integrity |-> 500, heat |-> 300]}
SensorsRecords ==
  {InitialSystemStates["sensors"], [active |-> FALSE, range |-> 0, quantum |-> TRUE]}
InputCalls == {"onTouch", "onKey", "physicsEngine.applyControlInput"}
C24_CleanupSilencesInput ==
  [][tornDown => \A i \in DOMAIN calls' : calls'[i].fn \notin InputCalls]_vars

\* C25: every processed tick hands the integrator the clock time elapsed since
\* the latest of the previous processed tick, the last resume() and the
\* completion of initialize(); the first tick after initialize() is not given
\* the time since the clock's origin.
C25_DtSinceLatestTimeBase ==
  [][(lastOp' = "render" /\ TickProcessed) =>
       /\ deltaTime' * 1000 = (now - timeBase) * FP
       /\ \A i \in CallsIn(calls', "physicsEngine.update") :
            calls'[i].dt * 1000 = (now - timeBase) * FP]_vars

\* C26: while the document is hidden the loop is not running, however the
\* visibility changes interleave with the stages of initialize(): a hide that
\* arrives during one of its awaits still holds when initialize() completes.
C26_HiddenMeansNotRunning == hidden => ~isRunning

\* C27: a tick calls the integrator's update only after initialize() has
\* completed successfully; while initialize() is in progress, or after it
\* failed inside the pipeline's initialize(), a resume() or visibility change
\* followed by a tick does not advance physics.
C27_UpdateOnlyAfterInitialize ==
  [][(lastOp' = "render" /\ CallsIn(calls', "physicsEngine.update") # {}) =>
       initPc = "done"]_vars

\* C28: a w/a/s/d key event, press or release, and a single-touch event leave
\* a last-known thrust of 0.8 or 0.7; once it is one of the two it stays one of
\* the two through every key-up, touch-end, touch-cancel, pause and mission
\* start; and every processed tick from then on adds the thrust term, built
\* from that nonzero thrust, to the velocity before damping.
StickyThrusts == {KeyThrust, TouchThrust}
C28_ThrustStaysOn ==
  /\ [][CallsIn(calls', "physicsEngine.applyControlInput") # {} =>
          LastKnown(lastControlInput', "thrust") \in StickyThrusts]_vars
  /\ [][LastKnown(lastControlInput, "thrust") \in StickyThrusts =>
          LastKnown(lastControlInput', "thrust") \in StickyThrusts]_vars
  /\ [][\A i \in CallsIn(calls', "physicsEngine.update") :
          LastKnown(lastControlInput, "thrust") \in StickyThrusts =>
            \A forward \in {TransformQuat(Vec3(0, 0, -FP),
                                           QuatToFP(craftTransform.rotation))} :
            \A magnitude \in {MulFP(lastControlInput.thrust,
                                     MulFP(systemStates["propulsion"]["plasmaRate"],
                                           PLASMA_EFFICIENCY)) * ThrustScale} :
              /\ velocity'.x = MulFP(velocity.x
                                       + MulFP(MulFP(forward.x, magnitude), calls'[i].dt),
                                     LinearDamping)
              /\ velocity'.z = MulFP(velocity.z
                                       + MulFP(MulFP(forward.z, magnitude), calls'[i].dt),
                                     LinearDamping)]_vars

\* a tick under thrust after the key that set it was released, the loop was
\* paused and resumed and a mission was started
C28_Witness ==
  /\ lastOp = "render" /\ nTicks >= 1 /\ deltaTime > 0
  /\ CallsTo("physicsEngine.update") # {}
  /\ pressedKeys = {} /\ activeTouches = <<>> /\ nInputs >= 2
  /\ LastKnown(lastControlInput, "thrust") \in StickyThrusts
  /\ velocity.z < 0

\* C29: for each key code the onKey notifications alternate, pressed first: a
\* pressed notification is made only for a code whose last notification was
\* not a press, a released one only for a code whose last notification was a
\* press, under every sequence of keydown and keyup events. So a keydown that
\* notifies adds the key's rotational impulse once, and a repeated keydown, a
\* keyup, and a keyup without a keydown add nothing.
KeyImpulse(key) ==
  CASE key = "w" -> Vec3(-KeyStrength, 0, 0)
    [] key = "s" -> Vec3(KeyStrength, 0, 0)
    [] key = "a" -> Vec3(0, -KeyStrength, 0)
    [] key = "d" -> Vec3(0, KeyStrength, 0)
    [] OTHER -> Zero3
PressNotified(cs) ==
  {cs[i].arg.key : i \in {k \in CallsIn(cs, "onKey") : cs[k].arg.pressed}}
C30_MirrorEqualsEngine == systems = systemStates

\* -------------------------------------------------------- specifications
\* initialize(), through its stages
Initialize ==
  \/ \E contextOk \in BOOLEAN, gpu \in GpuAnswersBrief : InitializeStart(contextOk, gpu)
  \/ InitializeFinish

\* the loop and its lifecycle: the host's frame driver, the clock, visibility
\* changes, pause / resume / cleanup and mission starts
Next ==
  \/ AdvanceClock
  \/ Initialize
  \/ Pause
  \/ Resume
  \/ VisibilityChange
  \/ Cleanup
  \/ Render
  \/ \E missionId \in MissionIds : StartMission(missionId)

Spec == Init /\ [][Next]_vars

\* the control path: a collaborator's direct control input between ticks
NextControl ==
  \/ AdvanceClock
  \/ Initialize
  \/ Render
  \/ \E input \in ControlInputs : ApplyControlInput(input)

SpecControl == Init /\ [][NextControl]_vars

\* the keyboard path: key events between ticks
NextKeys ==
  \/ AdvanceClock
  \/ Initialize
  \/ Render
  \/ \E code \in KeyCodes : KeyDown(code)
  \/ \E code \in KeyCodes : KeyUp(code)

SpecKeys == Init /\ [][NextKeys]_vars

\* the subsystem path: updateSystem between ticks
NextSystems ==
  \/ AdvanceClock
  \/ Initialize
  \/ Render
  \/ \E system \in SystemNames, values \in SystemValues : UpdateSystem(system, values)

SpecSystems == Init /\ [][NextSystems]_vars

\* the graphics path: every way RenderEngine.initialize() can end, a second
\* initialize() after a failed one, ticks (a resume() lets them be processed
\* whatever initialize() did), the cloak switched on and off, window resizes
\* and cleanup()
InitializePipeline ==
  \/ \E contextOk \in BOOLEAN, gpu \in GpuAnswers : InitializeStart(contextOk, gpu)
  \/ \E contextOk \in BOOLEAN, gpu \in GpuAnswers : InitializeAgain(contextOk, gpu)
  \/ InitializeFinish

CloakSwitches == {[active |-> TRUE], [active |-> FALSE]}

NextPipeline ==
  \/ InitializePipeline
  \/ Resume
  \/ Render
  \/ \E values \in CloakSwitches : UpdateSystem("cloaking", values)
  \/ \E layout \in Layouts, ratio \in DevicePixelRatios : WindowResize(layout, ratio)
  \/ Cleanup

SpecPipeline == Init /\ [][NextPipeline]_vars

\* free flight: ticks with no control input, the anti-gravity slider moved
\* between its ends
AntiGravitySettings == {[antiGravity |-> 0], [antiGravity |-> FP]}

NextFreeFlight ==
  \/ AdvanceClock
  \/ Initialize
  \/ Render
  \/ \E values \in AntiGravitySettings : UpdateSystem("propulsion", values)

SpecFreeFlight == Init /\ [][NextFreeFlight]_vars

\* cloaked flight: control inputs and ticks, the cloak switched on at half
\* integrity between them
FlightInputs == {[yaw |-> 200, thrust |-> 1000]}

NextCloakedFlight ==
  \/ AdvanceClock
  \/ Initialize
  \/ Render
  \/ \E input \in FlightInputs : ApplyControlInput(input)
  \/ UpdateSystem("cloaking", [active |-> TRUE, integrity |-> 500])

SpecCloakedFlight == Init /\ [][NextCloakedFlight]_vars

\* the input path: key, touch and mouse events around the engine's lifecycle
InputKeyCodes == {"KeyW", "Space"}
NextInput ==
  \/ Initialize
  \/ Cleanup
  \/ \E code \in InputKeyCodes : KeyDown(code)
  \/ \E code \in InputKeyCodes : KeyUp(code)
  \/ \E identifier \in TouchIds, point \in TouchPoints : TouchStart(identifier, point)
  \/ \E identifier \in TouchIds, point \in TouchPoints : TouchMove(identifier, point)
  \/ \E identifier \in TouchIds : TouchEnd(identifier)
  \/ TouchCancel
  \/ \E point \in TouchPoints : MouseDown(point)
  \/ \E point \in TouchPoints : MouseMove(point)
  \/ MouseUp

SpecInput == Init /\ [][NextInput]_vars

\* visibility changes interleaved with the asynchronous initialize()
NextVisibility ==
  \/ AdvanceClock
  \/ Initialize
  \/ VisibilityChange
  \/ Render

SpecVisibility == Init /\ [][NextVisibility]_vars

\* thrust under key and touch input, with pauses and mission starts
ThrustKeyCodes == {"KeyW"}
ThrustTouchPoint == [clientX |-> 800, clientY |-> 0]
NextThrust ==
  \/ Initialize
  \/ Render
  \/ Pause
  \/ Resume
  \/ StartMission("urban-recon-01")
  \/ \E code \in ThrustKeyCodes : KeyDown(code)
  \/ \E code \in ThrustKeyCodes : KeyUp(code)
  \/ \E identifier \in TouchIds : TouchStart(identifier, ThrustTouchPoint)
  \/ \E identifier \in TouchIds : TouchEnd(identifier)
  \/ TouchCancel

SpecThrust == Init /\ [][NextThrust]_vars

\* the keyboard alone: every sequence of keydown and keyup events
NextKeyEvents ==
  \/ Initialize
  \/ \E code \in KeyCodes : KeyDown(code)
  \/ \E code \in KeyCodes : KeyUp(code)

SpecKeyEvents == Init /\ [][NextKeyEvents]_vars

\* the UI's subsystem updates between ticks
NextApp ==
  \/ AdvanceClock
  \/ Initialize
  \/ Render
  \/ \E system \in SystemNames, values \in SystemValues : HandleSystemUpdate(system, values)

SpecApp == Init /\ [][NextApp]_vars

====
